---- MODULE Spec2Model ----
(***************************************************************************)
(* State-machine model of quic-p2p's async API (src/src/api.rs):           *)
(* QuicP2p::with_config, bootstrap, connect_to, listen, and the private    *)
(* helpers new_connection_to and bind.                                     *)
(*                                                                         *)
(* The operating system's socket table, the transport engine (quinn) and   *)
(* the task runtime (tokio) are the environment: the OS refuses a bind to  *)
(* an address that is in use, the engine resolves each handshake, and the  *)
(* runtime runs every spawned task independently of its JoinHandle.        *)
(***************************************************************************)
EXTENDS Integers, Sequences, FiniteSets, TLC

\* ------------------------------------------------------------------ bounds
\* how many ports the OS has in its ephemeral range
NumEphemeral == 2
\* how many API calls (bootstrap, connect_to, listen) the caller makes
MaxCalls == 2
\* how many connection attempts (new_connection_to invocations) are made in all
MaxAttempts == 3

\* --------------------------------------------------------------- constants
DEFAULT_MAX_ALLOWED_MSG_SIZE == 500 * 1024 * 1024
DEFAULT_PORT_TO_TRY == 12000

UNSPECIFIED == "0.0.0.0"
LOOPBACK == "127.0.0.1"

\* Option<T> is a sequence of length at most one
None == <<>>
Some(x) == <<x>>
unwrap_or(opt, default) == IF opt = None THEN default ELSE opt[1]

SocketAddr(ip, port) == [ip |-> ip, port |-> port]
\* the value of a socket field that holds no socket
NoAddr == [ip |-> "-", port |-> 0]

EphemeralPorts == 32768 .. (32767 + NumEphemeral)

Range(s) == {s[i] : i \in DOMAIN s}

RECURSIVE Reverse(_)
Reverse(s) == IF s = <<>> THEN <<>> ELSE Append(Reverse(Tail(s)), Head(s))

RemoveAt(s, k) == SubSeq(s, 1, k - 1) \o SubSeq(s, k + 1, Len(s))

\* ------------------------------------------------------------- environment
\* two sockets collide when they name the same port on the same interface,
\* the wildcard address covering every interface
Conflicts(a, b) ==
    /\ a.port = b.port
    /\ (a.ip = b.ip \/ a.ip = UNSPECIFIED \/ b.ip = UNSPECIFIED)

IsFree(addr, held) == \A h \in held : ~Conflicts(addr, h)

\* std::net::UdpSocket::bind: the addresses the OS may give the socket, none
\* when the bind fails. Port 0 asks the OS for any free ephemeral port.
UdpSocketBind(addr, held) ==
    IF addr.port = 0
    THEN {SocketAddr(addr.ip, p) : p \in {q \in EphemeralPorts : IsFree(SocketAddr(addr.ip, q), held)}}
    ELSE IF IsFree(addr, held) THEN {addr} ELSE {}

\* ------------------------------------------------------------------ errors
NoError == [kind |-> "", port |-> 0]
ErrConfiguration(port) == [kind |-> "Configuration", port |-> port]
ErrEndpoint == [kind |-> "Endpoint", port |-> 0]
ErrConnect == [kind |-> "Connect", port |-> 0]
ErrBootstrapFailure == [kind |-> "BootstrapFailure", port |-> 0]

\* -------------------------------------------------------------------- bind
\* a result of bind: the endpoint's local address or the error, with the
\* addresses the call asked the OS for, in order
BindOk(addr, tries) == [ok |-> TRUE, addr |-> addr, err |-> NoError, tries |-> tries]
BindErr(err, tries) == [ok |-> FALSE, addr |-> NoAddr, err |-> err, tries |-> tries]

\* mutant of BindFallback: the fallback binds the wildcard address instead of
\* the requested IP
BindFallback_Wildcard(local_addr, held) ==
    LET bind_addr == SocketAddr(UNSPECIFIED, 0)
        tries == <<local_addr, bind_addr>>
        got == UdpSocketBind(bind_addr, held)
    IN  IF got # {} THEN {BindOk(a, tries) : a \in got}
        ELSE {BindErr(ErrEndpoint, tries)}

\* mutant of BindFallback: a fallback bind that fails is tried once more
BindFallback_Retries(local_addr, held) ==
    LET bind_addr == SocketAddr(local_addr.ip, 0)
        got == UdpSocketBind(bind_addr, held)
    IN  IF got # {} THEN {BindOk(a, <<local_addr, bind_addr>>) : a \in got}
        ELSE {BindErr(ErrEndpoint, <<local_addr, bind_addr, bind_addr>>)}

\* the fallback arm of bind: the OS-assigned port on the same IP
BindFallback(local_addr, held) ==
    LET bind_addr == SocketAddr(local_addr.ip, 0)
        tries == <<local_addr, bind_addr>>
        got == UdpSocketBind(bind_addr, held)
    IN  IF got # {} THEN {BindOk(a, tries) : a \in got}
        ELSE {BindErr(ErrEndpoint, tries)}

\* mutant of bind: the fallback is taken whether or not it is allowed
bind_AlwaysFallsBack(local_addr, allow_random_port, held) ==
    LET got == UdpSocketBind(local_addr, held)
    IN  IF got # {}
        THEN {BindOk(a, <<local_addr>>) : a \in got}
                 \cup {BindErr(ErrEndpoint, <<local_addr>>)}
        ELSE BindFallback(local_addr, held)

\* mutant of bind: the socket is bound with address reuse, so a bind to an
\* address in use succeeds
bind_ReusesAddress(local_addr, allow_random_port, held) ==
    LET got == UdpSocketBind(local_addr, {})
    IN  {BindOk(a, <<local_addr>>) : a \in got}
            \cup {BindErr(ErrEndpoint, <<local_addr>>)}

\* bind(endpoint_cfg, local_addr, allow_random_port): every result the call
\* can have when the sockets in `held` are in use
bind(local_addr, allow_random_port, held) ==
    LET got == UdpSocketBind(local_addr, held)
    IN  IF got # {}
        THEN {BindOk(a, <<local_addr>>) : a \in got}
                 \cup {BindErr(ErrEndpoint, <<local_addr>>)}
        ELSE IF allow_random_port
        THEN BindFallback(local_addr, held)
        ELSE {BindErr(ErrConfiguration(local_addr.port), <<local_addr>>)}

\* ------------------------------------------------------------------- state
VARIABLES
    cfg,                  \* the arguments with_config was given
    local_addr,           \* QuicP2p.local_addr
    allow_random_port,    \* QuicP2p.allow_random_port
    max_msg_size,         \* QuicP2p.max_msg_size
    peers,                \* QuicP2p.bootstrap_cache.peers()
    hard_coded_contacts,  \* QuicP2p.bootstrap_cache.hard_coded_contacts()
    reachable,            \* the destinations whose handshake the engine completes
    foreign,              \* local addresses other processes have bound
    call,                 \* the API call in flight: "idle", "bootstrap", "connect_to"
    bootstrap_nodes,      \* the candidate list of the latest bootstrap()
    tasks,                \* every new_connection_to invocation made so far
    handles,              \* the JoinHandles select_ok still holds (indices of tasks)
    ret,                  \* what the latest API call returned
    conns,                \* the Connections the caller holds
    listeners,            \* the IncomingConnections the caller holds
    ncalls                \* how many API calls were made

vars == <<cfg, local_addr, allow_random_port, max_msg_size, peers, hard_coded_contacts,
          reachable, foreign, call, bootstrap_nodes, tasks, handles, ret, conns,
          listeners, ncalls>>

instance == <<cfg, local_addr, allow_random_port, max_msg_size, peers, hard_coded_contacts>>
world == <<reachable, foreign>>

\* ------------------------------------------------------------ construction
\* BootstrapCache::new(hard_coded_contacts, dirs): the peers read from the
\* cache file and the contacts of the configuration
BootstrapCacheNew(hard_coded, loaded) ==
    [peers |-> loaded, hard_coded_contacts |-> hard_coded]

\* mutant of with_config: a configured port of 0 is taken for no port
with_config_PortZeroIsRandom(c, nodes, use_bootstrap_cache, loaded) ==
    LET port == unwrap_or(c.port, DEFAULT_PORT_TO_TRY)
        ip == unwrap_or(c.ip, UNSPECIFIED)
    IN  [ local_addr |-> SocketAddr(ip, port),
          allow_random_port |-> (c.port = None \/ c.port = Some(0)),
          max_msg_size |-> unwrap_or(c.max_msg_size_allowed, DEFAULT_MAX_ALLOWED_MSG_SIZE),
          peers |-> IF use_bootstrap_cache THEN loaded \o nodes ELSE nodes,
          hard_coded_contacts |-> c.hard_coded_contacts ]

\* mutant of with_config: the caller's nodes are put in front of the loaded
\* peers
with_config_NodesFirst(c, nodes, use_bootstrap_cache, loaded) ==
    LET port == unwrap_or(c.port, DEFAULT_PORT_TO_TRY)
        ip == unwrap_or(c.ip, UNSPECIFIED)
    IN  [ local_addr |-> SocketAddr(ip, port),
          allow_random_port |-> (c.port = None),
          max_msg_size |-> unwrap_or(c.max_msg_size_allowed, DEFAULT_MAX_ALLOWED_MSG_SIZE),
          peers |-> IF use_bootstrap_cache THEN nodes \o loaded ELSE nodes,
          hard_coded_contacts |-> c.hard_coded_contacts ]

\* mutant of with_config: the configured port is ignored
with_config_IgnoresPort(c, nodes, use_bootstrap_cache, loaded) ==
    LET ip == unwrap_or(c.ip, UNSPECIFIED)
    IN  [ local_addr |-> SocketAddr(ip, DEFAULT_PORT_TO_TRY),
          allow_random_port |-> (c.port = None),
          max_msg_size |-> unwrap_or(c.max_msg_size_allowed, DEFAULT_MAX_ALLOWED_MSG_SIZE),
          peers |-> IF use_bootstrap_cache THEN loaded \o nodes ELSE nodes,
          hard_coded_contacts |-> c.hard_coded_contacts ]

\* QuicP2p::with_config(cfg, bootstrap_nodes, use_bootstrap_cache): the fields
\* of the instance it builds. `loaded` is what the cache file holds.
with_config(c, nodes, use_bootstrap_cache, loaded) ==
    LET port == unwrap_or(c.port, DEFAULT_PORT_TO_TRY)
        ip == unwrap_or(c.ip, UNSPECIFIED)
        cache == BootstrapCacheNew(c.hard_coded_contacts, loaded)
    IN  [ local_addr |-> SocketAddr(ip, port),
          allow_random_port |-> (c.port = None),
          max_msg_size |-> unwrap_or(c.max_msg_size_allowed, DEFAULT_MAX_ALLOWED_MSG_SIZE),
          peers |-> IF use_bootstrap_cache THEN cache.peers \o nodes ELSE nodes,
          hard_coded_contacts |-> cache.hard_coded_contacts ]

\* the configurations the model is built with
Settings ==
    { [port |-> None, ip |-> Some(LOOPBACK), max_msg_size_allowed |-> None],
      [port |-> Some(8000), ip |-> None, max_msg_size_allowed |-> Some(1024)],
      [port |-> Some(0), ip |-> None, max_msg_size_allowed |-> Some(1024)] }

Config(s, h) ==
    [port |-> s.port, ip |-> s.ip, max_msg_size_allowed |-> s.max_msg_size_allowed,
     hard_coded_contacts |-> h]

\* every setting with one hard-coded contact, and the settings that pin no
\* port with none
Configs ==
    {Config(s, <<"H1">>) : s \in Settings}
        \cup {Config(s, <<>>) : s \in {x \in Settings : x.port = None}}

\* the peers the bootstrap cache file holds
CacheFile == <<"A">>

\* the bootstrap nodes the caller supplies
NodeLists == {<<>>, <<"B">>}

\* the sets of destinations the engine can complete a handshake with
Reachables == {{}, {"H1"}, {"A", "H1"}}

NoOut == [kind |-> "", err |-> NoError, peer |-> "", local |-> NoAddr, max |-> 0]
OutOk(peer, local, max) == [kind |-> "Ok", err |-> NoError, peer |-> peer, local |-> local, max |-> max]
OutErr(err) == [kind |-> "Err", err |-> err, peer |-> "", local |-> NoAddr, max |-> 0]
OutJoinError == [kind |-> "JoinError", err |-> NoError, peer |-> "", local |-> NoAddr, max |-> 0]
OutPanic == [kind |-> "Panic", err |-> NoError, peer |-> "", local |-> NoAddr, max |-> 0]

NoRet == [op |-> "", out |-> NoOut, tries |-> <<>>]

Init ==
    /\ \E c \in Configs, nodes \in NodeLists, use \in BOOLEAN, loaded \in {CacheFile} :
          LET q == with_config(c, nodes, use, loaded)
          IN  /\ cfg = [config |-> c, bootstrap_nodes |-> nodes,
                        use_bootstrap_cache |-> use, loaded |-> loaded]
              /\ local_addr = q.local_addr
              /\ allow_random_port = q.allow_random_port
              /\ max_msg_size = q.max_msg_size
              /\ peers = q.peers
              /\ hard_coded_contacts = q.hard_coded_contacts
              /\ foreign \in (IF q.local_addr.port = 0 THEN {{}}
                              ELSE {{}, {SocketAddr(UNSPECIFIED, q.local_addr.port)}})
    /\ reachable \in Reachables
    /\ call = "idle"
    /\ bootstrap_nodes = <<>>
    /\ tasks = <<>>
    /\ handles = <<>>
    /\ ret = NoRet
    /\ conns = <<>>
    /\ listeners = <<>>
    /\ ncalls = 0

\* ----------------------------------------------------------------- sockets
\* the local addresses in use: other processes' sockets and the sockets of
\* this instance's live endpoints
OwnSockets ==
    ({tasks[i].sock : i \in DOMAIN tasks} \ {NoAddr})
        \cup {conns[k].local : k \in DOMAIN conns}
        \cup {listeners[k].local : k \in DOMAIN listeners}

Held == foreign \cup OwnSockets

\* ------------------------------------------------------- new_connection_to
\* mutant of NewTask: every attempt is allowed the fallback bind
NewTask_AllowsFallback(op, node, n) ==
    [ op |-> op, node |-> node, call |-> n,
      local_addr |-> local_addr, allow_random_port |-> TRUE,
      max_msg_size |-> max_msg_size,
      st |-> "spawned", sock |-> NoAddr, tries |-> <<>>, out |-> NoOut ]

\* mutant of NewTask: every attempt is handed the address with_config
\* recorded, whatever bootstrap() has recorded since
NewTask_UsesConfiguredAddr(op, node, n) ==
    [ op |-> op, node |-> node, call |-> n,
      local_addr |-> SocketAddr(unwrap_or(cfg.config.ip, UNSPECIFIED),
                                unwrap_or(cfg.config.port, DEFAULT_PORT_TO_TRY)),
      allow_random_port |-> allow_random_port,
      max_msg_size |-> max_msg_size,
      st |-> "spawned", sock |-> NoAddr, tries |-> <<>>, out |-> NoOut ]

\* the invocation new_connection_to(node, .., max_msg_size, local_addr,
\* allow_random_port) made for API call number `n`, before it has run
NewTask(op, node, n) ==
    [ op |-> op, node |-> node, call |-> n,
      local_addr |-> local_addr, allow_random_port |-> allow_random_port,
      max_msg_size |-> max_msg_size,
      st |-> "spawned", sock |-> NoAddr, tries |-> <<>>, out |-> NoOut ]

\* mutant of AfterBind: a bind error is reported as a handshake error
AfterBind_WrapsError(t, o) ==
    IF o.ok
    THEN [t EXCEPT !.st = "connecting", !.sock = o.addr, !.tries = o.tries]
    ELSE [t EXCEPT !.st = "done", !.tries = o.tries, !.out = OutErr(ErrConnect)]

\* line 250: `bind(..)?` with result o
AfterBind(t, o) ==
    IF o.ok
    THEN [t EXCEPT !.st = "connecting", !.sock = o.addr, !.tries = o.tries]
    ELSE [t EXCEPT !.st = "done", !.tries = o.tries, !.out = OutErr(o.err)]

\* the endpoint of attempt t and every connection made through it have been
\* dropped: its socket is closed
Dropped(t) == [t EXCEPT !.sock = NoAddr]

\* mutant of Handshake: a handshake that failed is taken for a connection
Handshake_IgnoresFailure(t) ==
    [t EXCEPT !.st = "done", !.out = OutOk(t.node, t.sock, t.max_msg_size)]

\* mutant of Handshake: the address returned with the Connection is the one
\* that was requested, not the one the endpoint is bound to
Handshake_ReportsRequestedAddr(t) ==
    IF t.node \in reachable
    THEN [t EXCEPT !.st = "done", !.out = OutOk(t.node, t.local_addr, t.max_msg_size)]
    ELSE [t EXCEPT !.st = "done", !.out = OutErr(ErrConnect), !.sock = NoAddr]

\* lines 252-264: connect_with, the awaited handshake, Connection::new and
\* local_addr(), the engine completing the handshake with reachable peers
\* only. The Connection returned keeps the endpoint's socket open; on an
\* error the endpoint is dropped at the return.
Handshake(t) ==
    IF t.node \in reachable
    THEN [t EXCEPT !.st = "done", !.out = OutOk(t.node, t.sock, t.max_msg_size)]
    ELSE Dropped([t EXCEPT !.st = "done", !.out = OutErr(ErrConnect)])

\* mutant of TaskOutput: the output of a detached task is kept alive
TaskOutput_Leaked(t, joined) == t

\* lines 175-185: what tokio::spawn does with the value a task returns: it is
\* kept for the JoinHandle, and dropped when the JoinHandle is gone
TaskOutput(t, joined) == IF joined THEN t ELSE Dropped(t)

\* a spawned attempt runs up to its handshake's await
TaskBind(i) ==
    /\ i \in DOMAIN tasks
    /\ tasks[i].st = "spawned"
    /\ \E o \in bind(tasks[i].local_addr, tasks[i].allow_random_port, Held) :
          tasks' = [tasks EXCEPT ![i] = AfterBind(@, o)]
    /\ UNCHANGED <<instance, world, call, bootstrap_nodes, handles, ret, conns,
                   listeners, ncalls>>

\* the engine resolves the handshake of a spawned attempt, which returns
TaskHandshake(i) ==
    /\ i \in DOMAIN tasks
    /\ tasks[i].op = "bootstrap"
    /\ tasks[i].st = "connecting"
    /\ tasks' = [tasks EXCEPT ![i] = TaskOutput(Handshake(@), i \in Range(handles))]
    /\ UNCHANGED <<instance, world, call, bootstrap_nodes, handles, ret, conns,
                   listeners, ncalls>>

\* a spawned attempt panics or is cancelled by the runtime during its
\* handshake: its endpoint is dropped and its JoinHandle resolves to a JoinError
TaskAbort(i) ==
    /\ i \in DOMAIN tasks
    /\ tasks[i].op = "bootstrap"
    /\ tasks[i].st = "connecting"
    /\ tasks' = [tasks EXCEPT ![i] = Dropped([@ EXCEPT !.st = "done", !.out = OutJoinError])]
    /\ UNCHANGED <<instance, world, call, bootstrap_nodes, handles, ret, conns,
                   listeners, ncalls>>

\* the JoinHandles hs are dropped: the output of each task that has completed
\* is dropped with its handle, and a task still running is detached
DropHandles(hs) ==
    [i \in DOMAIN tasks |->
        IF i \in Range(hs) /\ tasks[i].st = "done" THEN Dropped(tasks[i]) ELSE tasks[i]]

\* --------------------------------------------------------------- bootstrap
\* mutant of BootstrapNodes: the cached peers are not reversed
BootstrapNodes_NotReversed(ps, hcc) == ps \o hcc

\* lines 157-164: peers().iter().rev().chain(hard_coded_contacts().iter())
BootstrapNodes(ps, hcc) == Reverse(ps) \o hcc

Min(S) == CHOOSE x \in S : \A y \in S : x <= y

\* futures::future::select_ok polled over the JoinHandles hs: the first handle
\* in list order that is ready decides; one that resolved to a JoinError is
\* removed and the rest is polled again
RECURSIVE select_ok(_)
select_ok(hs) ==
    LET ready == {k \in DOMAIN hs : tasks[hs[k]].st = "done"}
    IN  IF ready = {}
        THEN [res |-> "Pending", task |-> 0, inner |-> hs]
        ELSE LET k == Min(ready)
                 rest == RemoveAt(hs, k)
             IN  IF tasks[hs[k]].out.kind # "JoinError"
                 THEN [res |-> "Ok", task |-> hs[k], inner |-> rest]
                 ELSE IF rest = <<>>
                 THEN [res |-> "Err", task |-> 0, inner |-> rest]
                 ELSE select_ok(rest)

Returned(op, out, tries) == [op |-> op, out |-> out, tries |-> tries]

\* bootstrap() up to its await: the candidate list, one spawned attempt per
\* candidate, and select_ok, which panics on an empty list
Bootstrap ==
    /\ call = "idle"
    /\ ncalls < MaxCalls
    /\ ncalls' = ncalls + 1
    /\ LET nodes == BootstrapNodes(peers, hard_coded_contacts)
           n == Len(tasks)
       IN  /\ n + Len(nodes) <= MaxAttempts
           /\ bootstrap_nodes' = nodes
           /\ IF nodes = <<>>
              THEN /\ ret' = Returned("bootstrap", OutPanic, <<>>)
                   /\ UNCHANGED <<tasks, handles, call>>
              ELSE /\ tasks' = tasks \o [k \in 1 .. Len(nodes) |->
                                            NewTask("bootstrap", nodes[k], ncalls + 1)]
                   /\ handles' = [k \in 1 .. Len(nodes) |-> n + k]
                   /\ call' = "bootstrap"
                   /\ ret' = Returned("bootstrap", NoOut, <<>>)
    /\ UNCHANGED <<instance, world, conns, listeners>>

\* bootstrap() is polled after an attempt has completed: lines 189-197
BootstrapPoll ==
    /\ call = "bootstrap"
    /\ \E k \in DOMAIN handles : tasks[handles[k]].st = "done"
    /\ LET r == select_ok(handles)
           conn_info == tasks[r.task].out
       IN  CASE r.res = "Pending" ->
                  /\ handles' = r.inner
                  /\ UNCHANGED <<local_addr, call, tasks, ret, conns>>
             [] r.res = "Err" ->
                  /\ ret' = Returned("bootstrap", OutErr(ErrBootstrapFailure), <<>>)
                  /\ handles' = <<>>
                  /\ call' = "idle"
                  /\ UNCHANGED <<local_addr, tasks, conns>>
             [] r.res = "Ok" /\ conn_info.kind = "Err" ->
                  /\ ret' = Returned("bootstrap", conn_info, <<>>)
                  /\ tasks' = DropHandles(handles)
                  /\ handles' = <<>>
                  /\ call' = "idle"
                  /\ UNCHANGED <<local_addr, conns>>
             [] r.res = "Ok" /\ conn_info.kind = "Ok" ->
                  /\ local_addr' = conn_info.local
                  /\ ret' = Returned("bootstrap", conn_info, <<>>)
                  \* the winner's Connection, with its socket, passes to the caller
                  /\ conns' = Append(conns, conn_info)
                  /\ tasks' = DropHandles(handles)
                  /\ handles' = <<>>
                  /\ call' = "idle"
    /\ UNCHANGED <<cfg, allow_random_port, max_msg_size, peers, hard_coded_contacts,
                   world, bootstrap_nodes, listeners, ncalls>>

\* -------------------------------------------------------------- connect_to
ConnectTargets == {"A", "B"}

\* connect_to(node_addr) up to the handshake's await
ConnectTo(node) ==
    /\ call = "idle"
    /\ ncalls < MaxCalls
    /\ Len(tasks) < MaxAttempts
    /\ ncalls' = ncalls + 1
    /\ \E o \in bind(local_addr, allow_random_port, Held) :
          LET t == AfterBind(NewTask("connect_to", node, ncalls + 1), o)
          IN  /\ tasks' = Append(tasks, t)
              /\ IF o.ok
                 THEN /\ call' = "connect_to"
                      /\ handles' = <<Len(tasks) + 1>>
                      /\ ret' = Returned("connect_to", NoOut, <<>>)
                 ELSE /\ ret' = Returned("connect_to", t.out, <<>>)
                      /\ UNCHANGED <<call, handles>>
    /\ UNCHANGED <<instance, world, bootstrap_nodes, conns, listeners>>

\* mutant of ConnectToResolve: connect_to records the address its endpoint
\* bound, as bootstrap() does
ConnectToResolve_AdoptsAddress ==
    /\ call = "connect_to"
    /\ LET i == handles[1]
           t == Handshake(tasks[i])
       IN  /\ ret' = Returned("connect_to", t.out, <<>>)
           /\ IF t.out.kind = "Ok"
              THEN /\ conns' = Append(conns, t.out)
                   /\ tasks' = [tasks EXCEPT ![i] = Dropped(t)]
                   /\ local_addr' = t.out.local
              ELSE /\ tasks' = [tasks EXCEPT ![i] = t]
                   /\ UNCHANGED <<conns, local_addr>>
    /\ handles' = <<>>
    /\ call' = "idle"
    /\ UNCHANGED <<cfg, allow_random_port, max_msg_size, peers, hard_coded_contacts,
                   world, bootstrap_nodes, listeners, ncalls>>

\* the engine resolves connect_to's handshake and the call returns
ConnectToResolve ==
    /\ call = "connect_to"
    /\ LET i == handles[1]
           t == Handshake(tasks[i])
       IN  /\ ret' = Returned("connect_to", t.out, <<>>)
           /\ IF t.out.kind = "Ok"
              THEN /\ conns' = Append(conns, t.out)
                   /\ tasks' = [tasks EXCEPT ![i] = Dropped(t)]
              ELSE /\ tasks' = [tasks EXCEPT ![i] = t]
                   /\ UNCHANGED conns
    /\ handles' = <<>>
    /\ call' = "idle"
    /\ UNCHANGED <<instance, world, bootstrap_nodes, listeners, ncalls>>

\* ------------------------------------------------------------------ listen
Listen ==
    /\ call = "idle"
    /\ ncalls < MaxCalls
    /\ ncalls' = ncalls + 1
    /\ \E o \in bind(local_addr, allow_random_port, Held) :
          IF o.ok
          THEN /\ listeners' = Append(listeners, OutOk("", o.addr, max_msg_size))
               /\ ret' = Returned("listen", OutOk("", o.addr, max_msg_size), o.tries)
          ELSE /\ ret' = Returned("listen", OutErr(o.err), o.tries)
               /\ UNCHANGED listeners
    /\ UNCHANGED <<instance, world, call, bootstrap_nodes, tasks, handles, conns>>

\* ------------------------------------------------------------- the caller
\* the caller drops a Connection: its endpoint closes
CloseConnection(k) ==
    /\ conns' = RemoveAt(conns, k)
    /\ UNCHANGED <<instance, world, call, bootstrap_nodes, tasks, handles, ret,
                   listeners, ncalls>>

\* the caller drops an IncomingConnections: its endpoint closes
CloseListener(k) ==
    /\ listeners' = RemoveAt(listeners, k)
    /\ UNCHANGED <<instance, world, call, bootstrap_nodes, tasks, handles, ret,
                   conns, ncalls>>

\* ----------------------------------------------------------- specification
Next ==
    \/ Bootstrap
    \/ BootstrapPoll
    \/ \E node \in ConnectTargets : ConnectTo(node)
    \/ ConnectToResolve
    \/ Listen
    \/ \E i \in DOMAIN tasks : TaskBind(i)
    \/ \E i \in DOMAIN tasks : TaskHandshake(i)
    \/ \E i \in DOMAIN tasks : TaskAbort(i)
    \/ \E k \in DOMAIN conns : CloseConnection(k)
    \/ \E k \in DOMAIN listeners : CloseListener(k)

Spec == Init /\ [][Next]_vars

\* the steps of a caller that only bootstraps and drops the Connections it
\* was given
RaceNext ==
    \/ Bootstrap
    \/ BootstrapPoll
    \/ \E i \in DOMAIN tasks : TaskBind(i)
    \/ \E i \in DOMAIN tasks : TaskHandshake(i)
    \/ \E i \in DOMAIN tasks : TaskAbort(i)
    \/ \E k \in DOMAIN conns : CloseConnection(k)

\* the runtime runs every spawned attempt and polls bootstrap() once an
\* attempt has completed, and the engine resolves every handshake
Fairness ==
    /\ \A i \in 1 .. MaxAttempts : WF_vars(TaskBind(i))
    /\ \A i \in 1 .. MaxAttempts : WF_vars(TaskHandshake(i))
    /\ WF_vars(BootstrapPoll)

FairSpec == Init /\ [][RaceNext]_vars /\ Fairness

\* ------------------------------------------------------------------ claims
\* the attempts the latest API call launched
Attempts == {i \in DOMAIN tasks : tasks[i].call = ncalls}

\* the latest API call was bootstrap() and it has returned
BootstrapReturned == ret.op = "bootstrap" /\ call = "idle"

\* an attempt of the race to a reachable candidate whose bind succeeded
ReachableAttempt(i) ==
    /\ tasks[i].node \in reachable
    /\ tasks[i].st = "connecting" \/ tasks[i].out.kind = "Ok"

\* C1: with a non-empty candidate list and an attempt to a reachable candidate
\* that has bound its endpoint, bootstrap() returns a Connection, whatever the
\* order in which the attempts complete, also when the only failures are
\* handshakes with unreachable candidates that complete first.
C1_ReachableCandidateWins ==
    (/\ BootstrapReturned
     /\ bootstrap_nodes # <<>>
     /\ \E i \in Attempts : ReachableAttempt(i)
     /\ \A i \in Attempts : tasks[i].out.kind = "Err" => tasks[i].out.err = ErrConnect
     /\ \A i \in Attempts : tasks[i].out.kind # "JoinError")
        => ret.out.kind = "Ok"

\* C2: when every attempt of the race has failed, here each by its handshake,
\* bootstrap() returns BootstrapFailure and no per-candidate error.
C2_AllFailedIsBootstrapFailure ==
    (/\ BootstrapReturned
     /\ bootstrap_nodes # <<>>
     /\ \A i \in Attempts : tasks[i].out = OutErr(ErrConnect))
        => ret.out = OutErr(ErrBootstrapFailure)

\* C3: with an empty candidate list bootstrap() returns the error value
\* BootstrapFailure: it launches no attempt and does not panic.
C3_EmptyListIsBootstrapFailure ==
    (BootstrapReturned /\ bootstrap_nodes = <<>>)
        => (ret.out = OutErr(ErrBootstrapFailure) /\ Attempts = {})

\* C4: a Connection returned by bootstrap() is the one produced by an attempt
\* of this race, to a member of the candidate list whose handshake the engine
\* completed; it is never to a candidate whose attempt failed.
C4_WinnerIsReachableCandidate ==
    (BootstrapReturned /\ ret.out.kind = "Ok")
        => /\ \E k \in DOMAIN bootstrap_nodes : bootstrap_nodes[k] = ret.out.peer
           /\ ret.out.peer \in reachable
           /\ \E i \in Attempts :
                 /\ tasks[i].node = ret.out.peer
                 /\ tasks[i].out = ret.out
                 /\ tasks[i].tries # <<>>
                 /\ ret.out.local \in UdpSocketBind(tasks[i].tries[Len(tasks[i].tries)], {})

\* C4 witness: bootstrap() returned a Connection although another attempt of
\* the race had failed
C4_Witness ==
    /\ BootstrapReturned
    /\ ret.out.kind = "Ok"
    /\ \E i \in Attempts : tasks[i].out.kind = "Err"

\* the bind calls made in a step, each with its arguments and its result:
\* by a spawned attempt, by connect_to and by listen
BindCalls ==
    { [ local_addr |-> tasks[i].local_addr, allow |-> tasks[i].allow_random_port,
        ok |-> tasks'[i].sock # NoAddr, addr |-> tasks'[i].sock,
        err |-> tasks'[i].out.err, tries |-> tasks'[i].tries ] :
          i \in {j \in DOMAIN tasks : tasks[j].st = "spawned" /\ tasks'[j].st # "spawned"} }
    \cup
    { [ local_addr |-> local_addr, allow |-> allow_random_port,
        ok |-> tasks'[i].sock # NoAddr, addr |-> tasks'[i].sock,
        err |-> tasks'[i].out.err, tries |-> tasks'[i].tries ] :
          i \in {j \in DOMAIN tasks' : j \notin DOMAIN tasks /\ tasks'[j].op = "connect_to"} }
    \cup
    { [ local_addr |-> local_addr, allow |-> allow_random_port,
        ok |-> ret'.out.kind = "Ok", addr |-> ret'.out.local,
        err |-> ret'.out.err, tries |-> ret'.tries ] :
          x \in {y \in {ncalls + 1} : ncalls' = y /\ ret'.op = "listen"} }

\* C5: a bind with fallback disallowed whose requested address is in use
\* fails with a Configuration error carrying the requested port; it asks the
\* OS for no other address and binds no socket.
C5_PinnedBusyPortFails ==
    [][\A b \in BindCalls :
          (~b.allow /\ ~IsFree(b.local_addr, Held))
              => /\ ~b.ok
                 /\ b.err = [kind |-> "Configuration", port |-> b.local_addr.port]
                 /\ b.tries = <<b.local_addr>>
                 /\ OwnSockets' = OwnSockets]_vars

\* C5 witness: an attempt on a pinned port failed with a Configuration error
\* naming that port and holds no socket
C5_Witness ==
    \E i \in DOMAIN tasks :
        /\ ~tasks[i].allow_random_port
        /\ tasks[i].out.err = [kind |-> "Configuration", port |-> tasks[i].local_addr.port]
        /\ tasks[i].sock = NoAddr
        /\ tasks[i].local_addr.port # 0

\* C6: a bind with fallback allowed whose requested address is in use asks
\* the OS once more, for port 0 on the same IP, and either binds exactly one
\* socket there, on an OS-assigned port other than the requested one, or fails
\* with an Endpoint error; when the requested address is free it asks for that
\* address alone and the endpoint it returns is bound to it.
C6_FallbackToEphemeralPort ==
    [][\A b \in BindCalls :
          /\ (b.allow /\ ~IsFree(b.local_addr, Held))
                => /\ b.tries = <<b.local_addr, [ip |-> b.local_addr.ip, port |-> 0]>>
                   /\ \/ /\ b.ok
                         /\ b.addr.ip = b.local_addr.ip
                         /\ b.addr.port \notin {0, b.local_addr.port}
                         /\ b.addr \notin Held
                         /\ OwnSockets' = OwnSockets \cup {b.addr}
                      \/ /\ ~b.ok
                         /\ b.err.kind = "Endpoint"
                         /\ OwnSockets' = OwnSockets
          /\ (b.allow /\ IsFree(b.local_addr, Held))
                => /\ b.tries = <<b.local_addr>>
                   /\ b.ok => (b.addr = b.local_addr /\ OwnSockets' = OwnSockets \cup {b.addr})
                   /\ ~b.ok => OwnSockets' = OwnSockets]_vars

\* C6 witness: an attempt whose requested port was in use holds a socket on
\* another port of the same IP, and the ephemeral range is not exhausted
C6_Witness ==
    \E i \in DOMAIN tasks :
        /\ tasks[i].allow_random_port
        /\ Len(tasks[i].tries) = 2
        /\ tasks[i].sock # NoAddr
        /\ tasks[i].sock.port # tasks[i].local_addr.port
        /\ tasks[i].sock.ip = tasks[i].local_addr.ip

\* C7: once bootstrap() has returned a Connection, no other attempt of the
\* race is still in its handshake, holding its bound socket.
C7_LosersCancelledOnReturn ==
    (BootstrapReturned /\ ret.out.kind = "Ok")
        => \A i \in Attempts : ~(tasks[i].st = "connecting" /\ tasks[i].sock # NoAddr)

\* the attempts bootstrap() launched in API call number c, in launch order
AttemptsOfCall(c) ==
    LET launched(t) == t.op = "bootstrap" /\ t.call = c
    IN  SelectSeq(tasks, launched)

\* the candidate list spelled out: position k holds the k-th cached peer from
\* the end, and the hard-coded contacts follow in their own order
IsCandidateList(list) ==
    /\ Len(list) = Len(peers) + Len(hard_coded_contacts)
    /\ \A k \in 1 .. Len(peers) : list[k] = peers[Len(peers) + 1 - k]
    /\ \A k \in 1 .. Len(hard_coded_contacts) :
          list[Len(peers) + k] = hard_coded_contacts[k]

\* C9: the candidate list of bootstrap() is the cached peers in reverse of
\* their stored order followed by the hard-coded contacts in listed order,
\* nothing dropped, added or deduplicated, and the attempts are launched in
\* that order.
C9_CandidateListOrder ==
    /\ ret.op = "bootstrap" => IsCandidateList(bootstrap_nodes)
    /\ \A c \in 1 .. ncalls :
          LET ts == AttemptsOfCall(c)
          IN  ts # <<>> => IsCandidateList([k \in DOMAIN ts |-> ts[k].node])

\* C9 witness: a race over two cached peers and a hard-coded contact
C9_Witness ==
    /\ ret.op = "bootstrap"
    /\ Len(peers) >= 2
    /\ peers[1] # peers[2]
    /\ hard_coded_contacts # <<>>
    /\ Len(AttemptsOfCall(ncalls)) = Len(peers) + Len(hard_coded_contacts)

\* the local addresses of this instance's live endpoints, one entry each
LiveEndpoints ==
    LET bound(a) == a # NoAddr
    IN  SelectSeq([i \in DOMAIN tasks |-> tasks[i].sock], bound)
            \o [k \in DOMAIN conns |-> conns[k].local]
            \o [k \in DOMAIN listeners |-> listeners[k].local]

\* C10: no two live endpoints of the instance are bound to the same local
\* socket address, and none to an address another process holds; two live
\* listeners of an instance with no pinned port have distinct ports.
C10_EndpointsHaveDistinctAddresses ==
    /\ \A i, j \in DOMAIN LiveEndpoints :
          i # j => ~Conflicts(LiveEndpoints[i], LiveEndpoints[j])
    /\ \A i \in DOMAIN LiveEndpoints : IsFree(LiveEndpoints[i], foreign)
    /\ \A i, j \in DOMAIN listeners :
          (allow_random_port /\ i # j) => listeners[i].local.port # listeners[j].local.port

\* C10 witness: two listeners of an instance with no pinned port are live
C10_Witness ==
    /\ allow_random_port
    /\ Len(listeners) = 2

\* attempt i was launched by bootstrap() and holds a bound socket
HoldsSocket(i) ==
    IF i \in DOMAIN tasks
    THEN tasks[i].op = "bootstrap" /\ tasks[i].sock # NoAddr
    ELSE FALSE

\* C8: every attempt bootstrap() launched that holds a bound socket
\* eventually holds it no longer: a losing attempt's socket is closed once
\* its handshake is resolved and its result dropped (the winner's socket
\* passes to the Connection the caller receives).
C8_AttemptSocketsReleased ==
    \A i \in 1 .. MaxAttempts :
        HoldsSocket(i) ~> ~HoldsSocket(i)

\* C8 witness: bootstrap() has returned, and an attempt whose result was not
\* returned completed its handshake afterwards and has released its socket
C8_Witness ==
    /\ BootstrapReturned
    /\ \E i \in Attempts :
          /\ tasks[i].out.kind = "Ok"
          /\ tasks[i].out # ret.out
          /\ tasks[i].sock = NoAddr

\* in this step new_connection_to invocation i made its bind, which failed:
\* line 250 returned the error
BindFailedInStep(i) ==
    /\ i \in DOMAIN tasks'
    /\ i \notin DOMAIN tasks \/ tasks[i].st = "spawned"
    /\ tasks'[i].st = "done"
    /\ tasks'[i].tries # <<>>

\* C11 as stated: an attempt whose local bind failed fails with the error kind
\* of a handshake failure (Connect).
C11_BindFailureIsConnectError ==
    [][\A i \in DOMAIN tasks' :
          BindFailedInStep(i) => tasks'[i].out.err.kind = "Connect"]_vars

\* C11 amended: an attempt whose local bind failed fails with the error bind
\* produced, unchanged: Configuration carrying the requested local port when
\* fallback is disallowed and the OS refused the requested address, Endpoint
\* otherwise; it holds no socket, and connect_to returns that error at once.
C11_BindFailureKeepsBindError ==
    [][\A i \in DOMAIN tasks' :
          BindFailedInStep(i) =>
              LET t == tasks'[i]
                  req == t.local_addr
              IN  /\ t.out.kind = "Err"
                  /\ t.out.err = IF t.allow_random_port \/ UdpSocketBind(req, Held) # {}
                                 THEN ErrEndpoint
                                 ELSE ErrConfiguration(req.port)
                  /\ t.out.err.kind # "Connect"
                  /\ t.sock = NoAddr
                  /\ t.op = "connect_to" =>
                        (ret' = Returned("connect_to", t.out, <<>>) /\ call' = "idle")]_vars

\* C11 witness: connect_to has returned the Configuration error of its bind
\* on a pinned port that is in use
C11_Witness ==
    /\ ret.op = "connect_to"
    /\ call = "idle"
    /\ ret.out.kind = "Err"
    /\ ret.out.err = ErrConfiguration(local_addr.port)
    /\ \E i \in Attempts : tasks[i].op = "connect_to" /\ tasks[i].out = ret.out

\* in this step bootstrap() returns, with a Connection or with an error
BootstrapReturnsInStep == call = "bootstrap" /\ call' = "idle"

\* C12: the recorded local address changes only in the step in which
\* bootstrap() returns a Connection, where it becomes the address the socket
\* of the attempt whose Connection is returned is bound to, which no other
\* attempt of the race holds; a bootstrap() that returns an error or panics
\* leaves the recorded local address as it was when the call started.
C12_LocalAddrFollowsWinner ==
    [][/\ local_addr' # local_addr => (BootstrapReturnsInStep /\ ret'.out.kind = "Ok")
       /\ (BootstrapReturnsInStep /\ ret'.out.kind = "Ok") =>
             \E i \in Attempts :
                 /\ tasks[i].out = ret'.out
                 /\ tasks[i].sock # NoAddr
                 /\ local_addr' = tasks[i].sock
                 /\ conns'[Len(conns')].local = local_addr'
                 /\ \A j \in Attempts \ {i} : tasks[j].sock # local_addr'
       /\ (BootstrapReturnsInStep /\ ret'.out.kind # "Ok") =>
             /\ local_addr' = local_addr
             /\ \A i \in Attempts : tasks[i].local_addr = local_addr'
       /\ (ret'.op = "bootstrap" /\ ret'.out.kind = "Panic") => local_addr' = local_addr]_vars

\* C12 witness: bootstrap() returned a Connection made on a fallback port and
\* the recorded local address is that port's address, no longer the one the
\* attempts requested
C12_Witness ==
    /\ BootstrapReturned
    /\ ret.out.kind = "Ok"
    /\ local_addr = ret.out.local
    /\ \E i \in Attempts : tasks[i].out = ret.out /\ tasks[i].local_addr # local_addr

\* the new_connection_to invocations made for the API call that is in flight
\* or has just returned in this step
AttemptsAfterStep == {i \in DOMAIN tasks' : tasks'[i].call = ncalls'}

\* this step starts connect_to (its bind), or is taken while connect_to awaits
\* its handshake, its return included
ConnectToStarts == ret'.op = "connect_to" /\ ncalls' = ncalls + 1
DuringConnectTo == call = "connect_to"

\* this step is a call of listen()
ListenStep == ret'.op = "listen" /\ ncalls' = ncalls + 1

\* C13: connect_to(destination) makes one attempt, to that destination; from
\* its start to its return, with a Connection or an error, the cached peers,
\* the hard-coded contacts, the recorded local address and the
\* allow-random-port flag keep their values, and so they do over listen().
C13_ConnectToAndListenFrame ==
    [][/\ (ConnectToStarts \/ DuringConnectTo \/ ListenStep) =>
             UNCHANGED <<peers, hard_coded_contacts, local_addr, allow_random_port>>
       /\ \A node \in ConnectTargets :
             ConnectTo(node) => /\ Len(tasks') = Len(tasks) + 1
                                /\ tasks'[Len(tasks')].node = node
                                /\ Cardinality(AttemptsAfterStep) = 1
       /\ DuringConnectTo => /\ Len(tasks') = Len(tasks)
                             /\ Cardinality(AttemptsAfterStep) = 1
       /\ (DuringConnectTo /\ call' = "idle" /\ ret'.out.kind = "Ok") =>
             \A i \in AttemptsAfterStep : tasks'[i].node = ret'.out.peer
       /\ ListenStep => tasks' = tasks]_vars

\* C13 witness: connect_to returned a Connection whose endpoint is bound to a
\* fallback port, and the recorded local address is still the configured one
C13_Witness ==
    /\ ret.op = "connect_to"
    /\ call = "idle"
    /\ ret.out.kind = "Ok"
    /\ ret.out.local # local_addr
    /\ local_addr = with_config(cfg.config, cfg.bootstrap_nodes,
                                cfg.use_bootstrap_cache, cfg.loaded).local_addr

\* the bind tries of an attempt are the literal bind of the address it was
\* given and, only when fallback is allowed, one bind of port 0 on the same IP
AtMostTwoBindTries(t) ==
    /\ Len(t.tries) <= 2
    /\ t.tries # <<>> => t.tries[1] = t.local_addr
    /\ Len(t.tries) = 2 => (t.allow_random_port /\ t.tries[2] = SocketAddr(t.local_addr.ip, 0))
    /\ t.st = "spawned" <=> t.tries = <<>>

\* attempt i goes through bind, handshake and return once, in this order, and
\* is over for good once it has returned
NoSecondTry(i) ==
    /\ tasks[i].st = "connecting" => tasks'[i].st \in {"connecting", "done"}
    /\ tasks[i].st = "done" => tasks'[i].st = "done" /\ tasks'[i].out = tasks[i].out
    /\ tasks[i].st # "spawned" => tasks'[i].tries = tasks[i].tries
    /\ tasks'[i].node = tasks[i].node /\ tasks'[i].call = tasks[i].call

\* C14: one bootstrap() call launches exactly one attempt per entry of its
\* candidate list, all at its start and none while it awaits the race or after
\* an attempt has failed; an attempt makes at most two bind tries and one
\* handshake, and never runs again once it has returned.
C14_OneAttemptPerCandidate ==
    [][/\ \A i \in DOMAIN tasks : NoSecondTry(i)
       /\ \A i \in DOMAIN tasks' : AtMostTwoBindTries(tasks'[i])
       /\ call = "bootstrap" => Len(tasks') = Len(tasks)
       /\ (ret'.op = "bootstrap" /\ ncalls' = ncalls + 1) =>
             /\ Len(tasks') = Len(tasks) + Len(bootstrap_nodes')
             /\ \A k \in DOMAIN bootstrap_nodes' :
                   /\ tasks'[Len(tasks) + k].node = bootstrap_nodes'[k]
                   /\ tasks'[Len(tasks) + k].call = ncalls'
                   /\ tasks'[Len(tasks) + k].st = "spawned"
       /\ ret'.op = "bootstrap" =>
             Cardinality(AttemptsAfterStep) = Len(bootstrap_nodes')]_vars

\* C14 witness: bootstrap() has returned from a race of two candidates or
\* more in which an attempt failed and an attempt took the fallback bind
C14_Witness ==
    /\ BootstrapReturned
    /\ Len(bootstrap_nodes) >= 2
    /\ Cardinality(Attempts) = Len(bootstrap_nodes)
    /\ \E i \in Attempts : tasks[i].out.kind = "Err"
    /\ \E i \in Attempts : Len(tasks[i].tries) = 2

\* C15: the allow-random-port flag is true exactly when the configuration
\* names no port, in the state with_config builds and after every call, and
\* every attempt was handed that value; before the first call the recorded
\* local port is the configured port, or 12000 when none is configured.
C15_FlagFixedAtConstruction ==
    /\ allow_random_port <=> Len(cfg.config.port) = 0
    /\ \A i \in DOMAIN tasks : tasks[i].allow_random_port <=> Len(cfg.config.port) = 0
    /\ ncalls = 0 =>
          /\ Len(cfg.config.port) = 0 => local_addr.port = 12000
          /\ Len(cfg.config.port) = 1 => local_addr.port = cfg.config.port[1]

\* C15 witness: on an instance with no configured port a bootstrap() has
\* returned a Connection bound to a fallback port and a later call has
\* failed; the flag is still set
C15_Witness ==
    /\ allow_random_port
    /\ ncalls = MaxCalls
    /\ call = "idle"
    /\ local_addr.port # 12000
    /\ ret.out.kind = "Err"

\* C16: the cached peers are the peers loaded from the cache file followed by
\* the caller's nodes when the use-cache flag is set, and the caller's nodes
\* alone when it is not; the hard-coded contacts are the configuration's; this
\* holds of the state with_config builds and after every call.
C16_PeerCacheFixedAtConstruction ==
    LET loaded == cfg.loaded
        nodes == cfg.bootstrap_nodes
    IN  /\ cfg.use_bootstrap_cache =>
              /\ Len(peers) = Len(loaded) + Len(nodes)
              /\ \A k \in DOMAIN loaded : peers[k] = loaded[k]
              /\ \A k \in DOMAIN nodes : peers[Len(loaded) + k] = nodes[k]
        /\ ~cfg.use_bootstrap_cache => peers = nodes
        /\ hard_coded_contacts = cfg.config.hard_coded_contacts

\* C16 witness: an instance built with the use-cache flag, a loaded peer and
\* a caller's node has made all its calls, a bootstrap() that returned a
\* Connection among them
C16_Witness ==
    /\ cfg.use_bootstrap_cache
    /\ cfg.loaded # <<>>
    /\ cfg.bootstrap_nodes # <<>>
    /\ hard_coded_contacts # <<>>
    /\ ncalls = MaxCalls
    /\ call = "idle"
    /\ \E k \in DOMAIN conns : conns[k].peer \in Range(bootstrap_nodes)

\* the attempts of the bootstrap() race number c
RaceOf(c) == {i \in DOMAIN tasks : tasks[i].op = "bootstrap" /\ tasks[i].call = c}

\* in this step attempt i, spawned by bootstrap(), makes its bind
BindsInStep(i) == tasks[i].st = "spawned" /\ tasks'[i].st # "spawned"

\* what C17 says of the races of two candidates or more of an instance whose
\* configuration pins a port among `ports`: the attempts of a race request the
\* same address; an attempt that makes its bind while another attempt of its
\* race holds an endpoint fails with a Configuration error naming the pinned
\* port, having asked for no other address and bound nothing; no two attempts
\* of a race hold an endpoint at once
PinnedRaceSerialised(ports) ==
    (Len(cfg.config.port) = 1 /\ cfg.config.port[1] \in ports) =>
        \A c \in 1 .. ncalls :
            Cardinality(RaceOf(c)) >= 2 =>
                /\ \A i, j \in RaceOf(c) : tasks[i].local_addr = tasks[j].local_addr
                /\ \A i \in RaceOf(c) :
                      (BindsInStep(i) /\ \E j \in RaceOf(c) : tasks[j].sock # NoAddr) =>
                          /\ tasks'[i].out = OutErr(ErrConfiguration(tasks[i].local_addr.port))
                          /\ tasks'[i].tries = <<tasks[i].local_addr>>
                          /\ tasks'[i].sock = NoAddr
                /\ Cardinality({i \in RaceOf(c) : tasks'[i].sock # NoAddr}) <= 1

\* C17 as stated: the races of an instance with a pinned port, whatever the
\* port, are serialised on the pinned address.
C17_PinnedRaceHoldsOneEndpoint ==
    [][PinnedRaceSerialised(0 .. 65535)]_vars

\* C17 amended: the races of an instance with a pinned port other than 0 are
\* serialised on the pinned address. (With port 0 pinned every attempt is
\* given a port of its own by the OS.)
C17_NonZeroPinnedRaceHoldsOneEndpoint ==
    [][PinnedRaceSerialised(1 .. 65535)]_vars

\* C17 witness: in a race of two candidates or more on a pinned port other
\* than 0 an attempt holds the pinned address and another has failed with the
\* Configuration error
C17_Witness ==
    /\ Len(cfg.config.port) = 1
    /\ local_addr.port # 0
    /\ call = "bootstrap"
    /\ Cardinality(RaceOf(ncalls)) >= 2
    /\ \E i, j \in RaceOf(ncalls) :
          /\ tasks[i].sock = tasks[i].local_addr
          /\ tasks[j].out = OutErr(ErrConfiguration(local_addr.port))

\* C18 as stated: on an instance with a pinned port p, 0 included, the port
\* of the recorded local address is p in every reachable state.
C18_PinnedPortIsRecordedPort ==
    Len(cfg.config.port) = 1 => local_addr.port = cfg.config.port[1]

\* C18 amended: on an instance with a pinned port p other than 0 the port of
\* the recorded local address is p in every reachable state; with port 0
\* pinned it is 0 until a bootstrap() returns a Connection and from then on
\* the OS-assigned port of the endpoint of the latest Connection bootstrap()
\* returned.
C18_NonZeroPinnedPortIsRecordedPort ==
    /\ (Len(cfg.config.port) = 1 /\ cfg.config.port[1] # 0) =>
          local_addr.port = cfg.config.port[1]
    /\ cfg.config.port = <<0>> =>
          \/ local_addr.port = 0
          \/ /\ local_addr.port \in EphemeralPorts
             /\ \E i \in DOMAIN tasks : /\ tasks[i].op = "bootstrap"
                                         /\ tasks[i].out.kind = "Ok"
                                         /\ tasks[i].out.local = local_addr

\* C18 witness: on an instance with a pinned port other than 0 a bootstrap()
\* has returned a Connection
C18_Witness ==
    /\ Len(cfg.config.port) = 1
    /\ cfg.config.port[1] # 0
    /\ BootstrapReturned
    /\ ret.out.kind = "Ok"
    /\ local_addr.port = cfg.config.port[1]

\* the maximum message size with_config resolves: the configured value, or
\* 500 MiB when none is configured
ResolvedMaxMsgSize ==
    IF Len(cfg.config.max_msg_size_allowed) = 1
    THEN cfg.config.max_msg_size_allowed[1]
    ELSE 500 * 1024 * 1024

\* C19: an attempt is handed the recorded local address as it stands when
\* its bootstrap() or connect_to() starts, and its bind asks for that address
\* first, as the bind of listen() asks for the recorded local address first;
\* every Connection bootstrap() or connect_to() produces and every sequence
\* listen() returns records the maximum message size resolved at construction.
C19_BindsRecordedAddrKeepsMaxMsgSize ==
    [][/\ \A i \in DOMAIN tasks' \ DOMAIN tasks :
             /\ tasks'[i].local_addr = local_addr
             /\ tasks'[i].max_msg_size = ResolvedMaxMsgSize
       /\ \A i \in DOMAIN tasks' :
             /\ tasks'[i].tries # <<>> => tasks'[i].tries[1] = tasks'[i].local_addr
             /\ tasks'[i].out.kind = "Ok" => tasks'[i].out.max = ResolvedMaxMsgSize
       /\ \A i \in DOMAIN tasks : tasks'[i].local_addr = tasks[i].local_addr
       /\ ListenStep => ret'.tries # <<>> /\ ret'.tries[1] = local_addr
       /\ ret'.out.kind = "Ok" => ret'.out.max = ResolvedMaxMsgSize
       /\ \A k \in DOMAIN conns' : conns'[k].max = ResolvedMaxMsgSize
       /\ \A k \in DOMAIN listeners' : listeners'[k].max = ResolvedMaxMsgSize]_vars

\* C19 witness: after a bootstrap() that returned a Connection bound to a
\* fallback port, connect_to has made its bind asking for that port's address,
\* which is not the configured one
C19_Witness ==
    /\ ret.op = "connect_to"
    /\ \E i \in Attempts :
          /\ tasks[i].op = "connect_to"
          /\ tasks[i].tries # <<>>
          /\ tasks[i].tries[1] = local_addr
          /\ tasks[i].tries[1].port \in EphemeralPorts
    /\ cfg.config.port = <<>>
    /\ \E k \in DOMAIN conns : conns[k].local = local_addr /\ conns[k].max = 500 * 1024 * 1024

====
